---- MODULE Spec2Model ----
(***************************************************************************)
(* Model of the Conquer engine of p1x3lz: the grid, the rock generator of  *)
(* ConquerScene, the region capture engine (detectEnclosedRegion,          *)
(* detectAndCaptureRegions), the useGameLogic hook (validateMove,          *)
(* makeMove, passTurn, checkConquerVictory, advanceToNextTurn) and the     *)
(* handlers of InGameScreen / GameCanvas that call them.                   *)
(***************************************************************************)
EXTENDS Integers, Sequences, FiniteSets, TLC

VARIABLES
  grid,          \* game.grid: [width, height, cells], shared by the hook and the scene
  options,       \* game.options: maxNeutralEdges, rocksPercentage, turnTimeLimit
  players,       \* game.players, in join order (ids)
  localIds,      \* the ids of the players with isLocal
  currentTurn,   \* game.currentTurn
  status,        \* game.status
  winCondition,  \* game.winCondition
  validMoves,    \* the hook's validMoves state, set by its effect
  isInitialized, \* GameCanvas: a scene exists (sceneRef.current is set)
  resizes,       \* runs of the canvas initialisation effect so far
  advances,      \* history: the Turns installed by advanceToNextTurn so far
  last           \* the last handler that ran, its arguments and result

vars == <<grid, options, players, localIds, currentTurn, status,
          winCondition, validMoves, isInitialized, resizes, advances,
          last>>

----------------------------------------------------------------------------
(* Bounds of the model *)

\* grid width and height of the games explored by Spec
GridW == 2
GridH == 2
\* runs of the canvas initialisation effect explored by Spec
MaxResizes == 3
\* passTurn is explored while the resulting round number stays within this
MaxTurnNumber == 3
\* side of the square grids the capture engine is applied to by SpecRegion,
\* and the number of their cells that are a Rock or belong to the opponent
RegionSize == 3
MaxSpecialCells == 1

\* the grids of the score projection's family: their size, the cells of the
\* second player and the Rocks
ScoreW == 8
ScoreH == 5
MaxScoreOthers == 2
MaxScoreRocks == 1
\* the grids of the victory evaluator's family
VictoryW == 3
VictoryH == 2
\* side of the grids of SpecSettled and their options.rocksPercentage
SettledSize == 3
SettledRocksPercentage == 15
\* options.rocksPercentage of the games explored by Spec
RocksPercentages == {0, 25}
\* the largest grid of the rock generator's games, and the number of
\* shuffles tried on each
RocksMaxW == 12
RocksMaxH == 15
MaxShuffles == 2

(* Program constants *)

\* ConquerOptions.maxNeutralEdges ranges over 0-20, default 6
MaxNeutralEdgesLimit == 20
DefaultMaxNeutralEdges == 6
\* DEFAULT_GAME_OPTIONS.turnTimeLimit
DefaultTurnTimeLimit == 30
\* the smallest grid side updateGameOptions accepts
MinGridSize == 4
MaxGridSize == 64
DefaultGridSize == 15
\* the other limits of updateGameOptions; gameSpeed is counted in tenths
MinPlayersLimit == 2
MaxPlayersLimit == 8
MinTurnTimeLimit == 10
MaxTurnTimeLimit == 300
MinGameSpeed == 5
MaxGameSpeed == 20
\* the rocks slider of the options panel: 0 to 50 in steps of 5
RocksSliderMax == 50
RocksSliderStep == 5

\* options.maxNeutralEdges of the games explored
EdgeBudgets == {0, DefaultMaxNeutralEdges}

----------------------------------------------------------------------------
(* Data model: core-types *)

CellTypeEmpty    == "empty"
CellTypeOccupied == "occupied"
CellTypeRock     == "rock"

StatusPending == "pending"
StatusRunning == "running"
StatusEnded   == "ended"

VictoryMajority  == "majority"
VictoryStalemate == "stalemate"

\* a cell without an owner (owner is undefined in the source)
NoOwner == "none"
\* game.winCondition = null
NoWinCondition == [hasWinner |-> FALSE, winners |-> <<>>, type |-> "null"]

Position(x, y) == <<x, y>>
PosX(p) == p[1]
PosY(p) == p[2]

Positions(g) == (0 .. g.width - 1) \X (0 .. g.height - 1)

isValidPosition(pos, g) ==
  /\ PosX(pos) >= 0 /\ PosX(pos) < g.width
  /\ PosY(pos) >= 0 /\ PosY(pos) < g.height

createEmptyGrid(w, h) ==
  [width |-> w, height |-> h,
   cells |-> [p \in (0 .. w - 1) \X (0 .. h - 1) |->
                [type |-> CellTypeEmpty, owner |-> NoOwner]]]

\* grid.cells[y]?.[x]; only evaluated on positions of the grid
CellAt(g, pos) == g.cells[pos]

SeqToSet(s) == {s[i] : i \in 1 .. Len(s)}

----------------------------------------------------------------------------
(* ConquerScene: region capture engine *)

getAdjacentPositions(pos) ==
  << Position(PosX(pos) - 1, PosY(pos)),
     Position(PosX(pos) + 1, PosY(pos)),
     Position(PosX(pos), PosY(pos) - 1),
     Position(PosX(pos), PosY(pos) + 1) >>

\* line 193: a neighbour joins the region when it is Empty or carries an
\* owner other than the mover (the type of an owned cell is not looked at)
IsRegionCandidate(cell, player) ==
  \/ cell.type = CellTypeEmpty
  \/ (cell.owner # NoOwner /\ cell.owner # player)

\* the forEach over the neighbours of the popped cell (lines 184-199):
\* st = [queue, visited]
RECURSIVE ExpandNeighbours(_, _, _, _, _)
ExpandNeighbours(g, player, adj, i, st) ==
  IF i > Len(adj) THEN st
  ELSE LET neigh == adj[i]
           st2 == IF neigh \in st.visited THEN st
                  ELSE IF ~isValidPosition(neigh, g) THEN st
                  ELSE IF IsRegionCandidate(CellAt(g, neigh), player)
                       THEN [queue |-> Append(st.queue, neigh),
                             visited |-> st.visited \cup {neigh}]
                       ELSE st
       IN ExpandNeighbours(g, player, adj, i + 1, st2)

\* while (queue.length) { current = queue.pop(); regionCells.push(current); ... }
RECURSIVE FloodFillLoop(_, _, _, _)
FloodFillLoop(g, player, st, regionCells) ==
  IF st.queue = <<>> THEN regionCells
  ELSE LET n == Len(st.queue)
           current == st.queue[n]
           popped == [queue |-> SubSeq(st.queue, 1, n - 1), visited |-> st.visited]
       IN FloodFillLoop(g, player,
                        ExpandNeighbours(g, player, getAdjacentPositions(current), 1, popped),
                        Append(regionCells, current))

\* regionCells of detectEnclosedRegion after the flood fill (lines 175-200)
FloodFill(g, startPos, player) ==
  FloodFillLoop(g, player, [queue |-> <<startPos>>, visited |-> {startPos}], <<>>)

\* line 171: the seeds detectEnclosedRegion starts from
IsSeed(g, startPos, player) ==
  /\ isValidPosition(startPos, g)
  /\ CellAt(g, startPos).owner # player
  /\ CellAt(g, startPos).type # CellTypeRock

OnGridBorder(g, pos) ==
  \/ PosX(pos) = 0 \/ PosX(pos) = g.width - 1
  \/ PosY(pos) = 0 \/ PosY(pos) = g.height - 1

\* faulty variant: the veto loop is left out
HasOpponentOnEdgeNever(g, regionCells, player) == FALSE

\* lines 208-220: an opponent tile of the region lies on the border of the grid
HasOpponentOnEdge(g, regionCells, player) ==
  \E i \in 1 .. Len(regionCells) :
    LET cell == CellAt(g, regionCells[i]) IN
      /\ cell.owner # NoOwner /\ cell.owner # player
      /\ OnGridBorder(g, regionCells[i])

\* faulty variant: the sides of the grid that the enclosing cells touch are
\* counted as well
EdgeOccurrencesWithEnclosure(g, regionCells) ==
  {<<p, d>> \in Positions(g) \X (1 .. 4) :
     /\ \E i \in 1 .. Len(regionCells), k \in 1 .. 4 :
          p = regionCells[i] \/ p = getAdjacentPositions(regionCells[i])[k]
     /\ ~isValidPosition(getAdjacentPositions(p)[d], g)}

\* lines 224-229: the (region cell, direction) pairs whose neighbour is off the grid
EdgeOccurrences(g, regionCells) ==
  {<<i, d>> \in (1 .. Len(regionCells)) \X (1 .. 4) :
     ~isValidPosition(getAdjacentPositions(regionCells[i])[d], g)}

\* lines 230-242: some in-grid neighbour is neither friendly nor of the region
IsOpen(g, regionCells, player) ==
  \E i \in 1 .. Len(regionCells), d \in 1 .. 4 :
    LET neigh == getAdjacentPositions(regionCells[i])[d] IN
      /\ isValidPosition(neigh, g)
      /\ ~(CellAt(g, neigh).type = CellTypeRock \/ CellAt(g, neigh).owner = player)
      /\ neigh \notin SeqToSet(regionCells)

\* faulty variant: the budget comparison is >= instead of >
ExceedsEdgeBudgetOffByOne(edgeCount, maxEdges) == edgeCount >= maxEdges

\* faulty variant: no budget, every count of edges is accepted
ExceedsEdgeBudgetNever(edgeCount, maxEdges) == FALSE

\* line 247
ExceedsEdgeBudget(edgeCount, maxEdges) == edgeCount > maxEdges

NullRegion == [found |-> FALSE, cells |-> <<>>]

\* lines 202-257: the checks on the flood-filled cells and the returned Region
CheckEnclosure(g, regionCells, player, maxEdges) ==
  IF HasOpponentOnEdge(g, regionCells, player) THEN NullRegion
  ELSE IF IsOpen(g, regionCells, player) THEN NullRegion
  ELSE IF ExceedsEdgeBudget(Cardinality(EdgeOccurrences(g, regionCells)), maxEdges)
       THEN NullRegion
  ELSE [found |-> TRUE, cells |-> regionCells]

\* detectEnclosedRegion(startPos, player) with options.maxNeutralEdges = maxEdges
detectEnclosedRegion(g, startPos, player, maxEdges) ==
  IF ~IsSeed(g, startPos, player) THEN NullRegion
  ELSE CheckEnclosure(g, FloodFill(g, startPos, player), player, maxEdges)

\* line 98: the start position already belongs to a region captured by this call
IsAlreadyCapturedNever(acc, startPos) == FALSE

IsAlreadyCaptured(acc, startPos) == startPos \in acc.alreadyCaptured

\* the forEach over the neighbours of the placed cell (lines 95-118):
\* acc = [capturedRegions, finalCapturedCells, alreadyCaptured]
RECURSIVE ScanAdjacent(_, _, _, _, _, _)
ScanAdjacent(g, player, maxEdges, adj, i, acc) ==
  IF i > Len(adj) THEN acc
  ELSE LET startPos == adj[i]
           region == detectEnclosedRegion(g, startPos, player, maxEdges)
           acc2 == IF IsAlreadyCaptured(acc, startPos) THEN acc
                   ELSE IF region.found /\ Len(region.cells) > 0
                        THEN [capturedRegions |-> Append(acc.capturedRegions, region.cells),
                              finalCapturedCells |-> acc.finalCapturedCells \o region.cells,
                              alreadyCaptured |-> acc.alreadyCaptured \cup SeqToSet(region.cells)]
                        ELSE acc
       IN ScanAdjacent(g, player, maxEdges, adj, i + 1, acc2)

\* faulty variant: only the Empty cells of a region are handed over
ApplyCaptureEmptyOnly(g, cells, player) ==
  [g EXCEPT !.cells = [p \in DOMAIN g.cells |->
     IF p \in SeqToSet(cells) /\ g.cells[p].type = CellTypeEmpty
     THEN [type |-> CellTypeOccupied, owner |-> player]
     ELSE g.cells[p]]]

\* lines 122-135: every captured cell is retyped Occupied and given to the mover
ApplyCapture(g, cells, player) ==
  [g EXCEPT !.cells = [p \in DOMAIN g.cells |->
     IF p \in SeqToSet(cells)
     THEN [type |-> CellTypeOccupied, owner |-> player]
     ELSE g.cells[p]]]

\* detectAndCaptureRegions(lastMove, player): the grid after the call and
\* the returned { capturedRegions, capturedCells }
detectAndCaptureRegions(g, lastMove, player, maxEdges) ==
  LET acc == ScanAdjacent(g, player, maxEdges, getAdjacentPositions(lastMove), 1,
                          [capturedRegions |-> <<>>, finalCapturedCells |-> <<>>,
                           alreadyCaptured |-> {}])
  IN [grid |-> ApplyCapture(g, acc.finalCapturedCells, player),
      capturedRegions |-> acc.capturedRegions,
      capturedCells |-> acc.finalCapturedCells]

----------------------------------------------------------------------------
(* JS numbers *)

\* A JS number is an IEEE-754 binary64 value with 53 significant bits. A
\* significand is kept as four limbs, of 14, 13, 13 and 13 bits.
LimbBase == 8192

\* the carries of limbs + c, from the lowest limb up; the top limb is open
AddToLimbs(m, c) ==
  LET s4 == m[4] + c
      s3 == m[3] + (s4 \div LimbBase)
      s2 == m[2] + (s3 \div LimbBase)
  IN <<m[1] + (s2 \div LimbBase), s2 % LimbBase, s3 % LimbBase, s4 % LimbBase>>

\* the JS quotient r / d for 0 < r < d <= 4096, rounded to nearest, ties to
\* even: limbs * 2^(-(53 + zeros))
FloatDivide(r, d) ==
  LET z == CHOOSE k \in 0 .. 12 : (2 ^ (k + 1)) * r >= d /\ (2 ^ k) * r < d
      r0 == (2 ^ z) * r
      l1 == (r0 * 2 * LimbBase) \div d
      r1 == (r0 * 2 * LimbBase) % d
      l2 == (r1 * LimbBase) \div d
      r2 == (r1 * LimbBase) % d
      l3 == (r2 * LimbBase) \div d
      r3 == (r2 * LimbBase) % d
      l4 == (r3 * LimbBase) \div d
      r4 == (r3 * LimbBase) % d
      guard == (2 * r4) \div d
      sticky == (2 * r4) % d # 0
      up == guard = 1 /\ (sticky \/ l4 % 2 = 1)
      m == AddToLimbs(<<l1, l2, l3, l4>>, IF up THEN 1 ELSE 0)
  IN IF m[1] = 2 * LimbBase
     THEN [limbs |-> <<LimbBase, 0, 0, 0>>, zeros |-> z - 1]
     ELSE [limbs |-> m, zeros |-> z]

\* the JS product x * 100, rounded to 53 significant bits: the top limb
\* grows to 20 or 21 bits and the lowest 6 or 7 bits are rounded away
FloatTimes100(x) ==
  LET p4 == x.limbs[4] * 100
      p3 == x.limbs[3] * 100 + (p4 \div LimbBase)
      p2 == x.limbs[2] * 100 + (p3 \div LimbBase)
      p1 == x.limbs[1] * 100 + (p2 \div LimbBase)
      l4 == p4 % LimbBase
      k == IF p1 >= 2 ^ 20 THEN 7 ELSE 6
      guard == (l4 \div (2 ^ (k - 1))) % 2
      sticky == l4 % (2 ^ (k - 1)) # 0
      up == guard = 1 /\ (sticky \/ (l4 \div (2 ^ k)) % 2 = 1)
      kept == <<p1, p2 % LimbBase, p3 % LimbBase, l4 - (l4 % (2 ^ k))>>
  IN [limbs |-> AddToLimbs(kept, IF up THEN 2 ^ k ELSE 0), zeros |-> x.zeros]

\* Math.round of a product of FloatTimes100: the nearest integer, a half
\* rounded up; the integer part and the half bit lie in the top limb
MathRound(x) ==
  (x.limbs[1] \div (2 ^ (14 + x.zeros))) + ((x.limbs[1] \div (2 ^ (13 + x.zeros))) % 2)

\* the JS product x * n of a quotient of FloatDivide and an integer
\* 0 < n <= 4096, rounded to 53 significant bits: the top limb grows by k
\* bits and the lowest k bits are rounded away, ties to even
FloatTimes(x, n) ==
  LET p4 == x.limbs[4] * n
      p3 == x.limbs[3] * n + (p4 \div LimbBase)
      p2 == x.limbs[2] * n + (p3 \div LimbBase)
      p1 == x.limbs[1] * n + (p2 \div LimbBase)
      l4 == p4 % LimbBase
      k == CHOOSE j \in 0 .. 12 : 2 ^ (13 + j) <= p1 /\ p1 < 2 ^ (14 + j)
      half == IF k = 0 THEN 0 ELSE 2 ^ (k - 1)
      guard == IF k = 0 THEN 0 ELSE (l4 \div half) % 2
      sticky == k > 0 /\ l4 % half # 0
      up == guard = 1 /\ (sticky \/ (l4 \div (2 ^ k)) % 2 = 1)
      kept == <<p1, p2 % LimbBase, p3 % LimbBase, l4 - (l4 % (2 ^ k))>>
  IN [limbs |-> AddToLimbs(kept, IF up THEN 2 ^ k ELSE 0), zeros |-> x.zeros]

\* Math.floor of a product of FloatTimes: the integer part lies in the top limb
MathFloor(x) == x.limbs[1] \div (2 ^ (14 + x.zeros))

----------------------------------------------------------------------------
(* ConquerScene: rock generator *)

\* line 48: Math.floor(totalCells * (rocksPercentage / 100)), in JS numbers
RockCount(g, rocksPercentage) ==
  IF rocksPercentage = 0 \/ g.width * g.height = 0 THEN 0
  ELSE MathFloor(FloatTimes(FloatDivide(rocksPercentage, 100), g.width * g.height))

\* the sets of rockCount positions a shuffle can put first
RECURSIVE SubsetsOfSize(_, _)
SubsetsOfSize(S, k) ==
  IF k = 0 THEN {{}}
  ELSE IF S = {} THEN {}
  ELSE LET x == CHOOSE y \in S : TRUE IN
       SubsetsOfSize(S \ {x}, k) \cup {T \cup {x} : T \in SubsetsOfSize(S \ {x}, k - 1)}

ShuffleOutcomes(g, rocksPercentage) ==
  SubsetsOfSize(Positions(g), RockCount(g, rocksPercentage))

\* lines 59-77: the first rockCount positions of a shuffle of all positions
\* are retyped Rock; only the type of a cell is written
generateRocks(g, rockPositions) ==
  [g EXCEPT !.cells = [p \in DOMAIN g.cells |->
     IF p \in rockPositions
     THEN [type |-> CellTypeRock, owner |-> g.cells[p].owner]
     ELSE g.cells[p]]]

----------------------------------------------------------------------------
(* useGameLogic: victory evaluator *)

PlayerIds(ps) == SeqToSet(ps)

\* playerCounts.get(id) || 0 : the cells whose owner is the player
PlayerCount(g, id) == Cardinality({p \in Positions(g) : CellAt(g, p).owner = id})

OccupiedCells(g) == Cardinality({p \in Positions(g) : CellAt(g, p).owner # NoOwner})

RockCells(g) ==
  Cardinality({p \in Positions(g) :
     CellAt(g, p).owner = NoOwner /\ CellAt(g, p).type = CellTypeRock})

EmptyCells(g) ==
  Cardinality({p \in Positions(g) :
     CellAt(g, p).owner = NoOwner /\ CellAt(g, p).type = CellTypeEmpty})

PlayableCells(g) == g.width * g.height - RockCells(g)

\* faulty variant: the threshold is half of the playable cells
MajorityThresholdHalf(g) == PlayableCells(g) \div 2

\* line 342
MajorityThreshold(g) == (PlayableCells(g) \div 2) + 1

\* seq filtered by a predicate given as the set of kept elements
RECURSIVE FilterSeq(_, _)
FilterSeq(s, keep) ==
  IF s = <<>> THEN <<>>
  ELSE (IF Head(s) \in keep THEN <<Head(s)>> ELSE <<>>) \o FilterSeq(Tail(s), keep)

MaxCount(g, ps) ==
  LET counts == {PlayerCount(g, id) : id \in PlayerIds(ps)} \cup {0}
  IN CHOOSE m \in counts : \A c \in counts : c <= m

\* playerScores[0] after the stable descending sort: the first player, in
\* join order, among those with the highest count
Leader(g, ps) ==
  LET best == {i \in 1 .. Len(ps) : PlayerCount(g, ps[i]) = MaxCount(g, ps)}
  IN ps[CHOOSE i \in best : \A j \in best : i <= j]

\* faulty variant: a trailing player who can only draw level counts as well
AnyCanCatchUpOrTie(g, ps) ==
  \E i \in 1 .. Len(ps) :
    /\ ps[i] # Leader(g, ps)
    /\ PlayerCount(g, ps[i]) + EmptyCells(g) >= PlayerCount(g, Leader(g, ps))

\* lines 373-380
AnyCanCatchUp(g, ps) ==
  \E i \in 1 .. Len(ps) :
    /\ ps[i] # Leader(g, ps)
    /\ PlayerCount(g, ps[i]) + EmptyCells(g) > PlayerCount(g, Leader(g, ps))

NoWinner == [hasWinner |-> FALSE, winners |-> <<>>, type |-> VictoryMajority]

\* faulty variant: the count has to exceed the threshold
MajorityHoldersStrict(g, ps) ==
  {id \in PlayerIds(ps) : PlayerCount(g, id) > MajorityThreshold(g)}

\* lines 345-357: the players the majority check returns as winner
MajorityHolders(g, ps) ==
  {id \in PlayerIds(ps) : PlayerCount(g, id) >= MajorityThreshold(g)}

\* faulty variant: a full grid nobody owns a cell of has no winner yet
StalemateResultNoWinner == NoWinner

\* lines 398-400: the result for a full grid nobody owns a cell of
StalemateResult == [hasWinner |-> TRUE, winners |-> <<>>, type |-> VictoryStalemate]

\* faulty variant: on a full grid the first of the leading players wins alone
FullGridWinnersLeaderOnly(g, ps) == <<Leader(g, ps)>>

\* lines 403-405: the players whose count is the maximum, in join order
FullGridWinners(g, ps) ==
  FilterSeq(ps, {id \in PlayerIds(ps) : PlayerCount(g, id) = MaxCount(g, ps)})

checkConquerVictory(g, ps) ==
  LET majority == MajorityHolders(g, ps) IN
  IF majority # {}
  THEN [hasWinner |-> TRUE, winners |-> FilterSeq(ps, majority), type |-> VictoryMajority]
  ELSE IF EmptyCells(g) > 0 /\ Len(ps) > 0 /\ ~AnyCanCatchUp(g, ps)
          /\ PlayerCount(g, Leader(g, ps)) > 0
  THEN [hasWinner |-> TRUE, winners |-> <<Leader(g, ps)>>, type |-> VictoryMajority]
  ELSE IF OccupiedCells(g) + RockCells(g) >= g.width * g.height
  THEN IF MaxCount(g, ps) = 0
       THEN StalemateResult
       ELSE [hasWinner |-> TRUE, winners |-> FullGridWinners(g, ps),
             type |-> VictoryMajority]
  ELSE NoWinner


----------------------------------------------------------------------------
(* ConquerScoreCalculator *)

\* Math.round((tilesOwned / totalPlayableCells) * 100)
Percentage(tilesOwned, totalPlayableCells) ==
  IF totalPlayableCells <= 0 \/ tilesOwned = 0 THEN 0
  ELSE IF tilesOwned = totalPlayableCells THEN 100
  ELSE MathRound(FloatTimes100(FloatDivide(tilesOwned, totalPlayableCells)))

\* lines 22-29: the cells that are not a Rock, and those of them the player owns
TotalPlayableCells(g) ==
  Cardinality({p \in Positions(g) : CellAt(g, p).type # CellTypeRock})

TilesOwned(g, id) ==
  Cardinality({p \in Positions(g) :
                 CellAt(g, p).type # CellTypeRock /\ CellAt(g, p).owner = id})

\* faulty variant: the tiles of the previous projection are counted again
calculateScoreAccumulating(g, id) ==
  LET before == IF last.op = "score"
                THEN (CHOOSE sc \in SeqToSet(last.scores) : sc.playerId = id).tilesOwned
                ELSE 0
  IN [playerId |-> id, tilesOwned |-> TilesOwned(g, id) + before,
      percentage |-> Percentage(TilesOwned(g, id), TotalPlayableCells(g))]

\* calculateScore(game, player): rawScore = [tilesOwned, percentage]
calculateScore(g, id) ==
  [playerId |-> id, tilesOwned |-> TilesOwned(g, id),
   percentage |-> Percentage(TilesOwned(g, id), TotalPlayableCells(g))]

----------------------------------------------------------------------------
(* useGameLogic: derived state, validation, moves and turns *)

\* game.players.find(p => p.id === game.currentTurn.playerId) || null
currentPlayer ==
  IF currentTurn.playerId \in PlayerIds(players) THEN currentTurn.playerId ELSE NoOwner

isMyTurn == currentPlayer # NoOwner /\ currentPlayer \in localIds

\* calculateValidMoves: every Empty cell
calculateValidMoves(g) == {p \in Positions(g) : CellAt(g, p).type = CellTypeEmpty}

\* the effect of lines 74-81, run when the game state is replaced
ValidMovesEffect(g, st) ==
  IF st = StatusRunning THEN calculateValidMoves(g) ELSE {}

ErrOutOfBounds == "Position out of bounds"
ErrNotYourTurn == "Not your turn"
ErrNotEmpty    == "Cell is not empty"
ErrInvalidMove == "Invalid move"
ErrNone        == ""

Invalid(err) == [valid |-> FALSE, error |-> err]
Valid == [valid |-> TRUE, error |-> ErrNone]

\* faulty variant: the turn is checked before the bounds
validateMoveTurnFirst(pos) ==
  IF ~isMyTurn THEN Invalid(ErrNotYourTurn)
  ELSE IF ~isValidPosition(pos, grid) THEN Invalid(ErrOutOfBounds)
  ELSE IF CellAt(grid, pos).type # CellTypeEmpty THEN Invalid(ErrNotEmpty)
  ELSE IF pos \notin validMoves THEN Invalid(ErrInvalidMove)
  ELSE Valid

\* validateMove(position), lines 96-121
validateMove(pos) ==
  IF ~isValidPosition(pos, grid) THEN Invalid(ErrOutOfBounds)
  ELSE IF ~isMyTurn THEN Invalid(ErrNotYourTurn)
  ELSE IF CellAt(grid, pos).type # CellTypeEmpty THEN Invalid(ErrNotEmpty)
  ELSE IF pos \notin validMoves THEN Invalid(ErrInvalidMove)
  ELSE Valid

IndexOf(ps, id) == CHOOSE i \in 1 .. Len(ps) : ps[i] = id

\* faulty variant: the turn number counts every advance
advanceToNextTurnPerMove(turn, ps, opts) ==
  [turnNumber |-> turn.turnNumber + 1,
   playerId |-> ps[(IndexOf(ps, turn.playerId) % Len(ps)) + 1],
   moves |-> <<>>,
   timeLimit |-> opts.turnTimeLimit,
   timeRemaining |-> opts.turnTimeLimit]

\* faulty variant: the Turn handed over keeps the moves of the previous one
advanceToNextTurnKeepMoves(turn, ps, opts) ==
  [turnNumber |-> IF IndexOf(ps, turn.playerId) = Len(ps)
                  THEN turn.turnNumber + 1 ELSE turn.turnNumber,
   playerId |-> ps[(IndexOf(ps, turn.playerId) % Len(ps)) + 1],
   moves |-> turn.moves,
   timeLimit |-> opts.turnTimeLimit,
   timeRemaining |-> opts.turnTimeLimit]

\* advanceToNextTurn(gameData): the Turn installed (lines 429-454)
advanceToNextTurn(turn, ps, opts) ==
  LET currentPlayerIndex == IndexOf(ps, turn.playerId) - 1
      nextPlayerIndex == (currentPlayerIndex + 1) % Len(ps)
  IN [turnNumber |-> IF nextPlayerIndex = 0 THEN turn.turnNumber + 1 ELSE turn.turnNumber,
      playerId |-> ps[nextPlayerIndex + 1],
      moves |-> <<>>,
      timeLimit |-> opts.turnTimeLimit,
      timeRemaining |-> opts.turnTimeLimit]

\* lines 146-153: the placed cell becomes Occupied and owned by the mover
PlaceCell(g, pos, player) ==
  [g EXCEPT !.cells[pos] = [type |-> CellTypeOccupied, owner |-> player]]

\* faulty variant: the cell is placed before the move is validated
makeMovePlaceFirst(pos) ==
  LET validation == validateMove(pos) IN
  [valid |-> validation.valid, error |-> validation.error,
   grid |-> IF isValidPosition(pos, grid) /\ currentPlayer # NoOwner
            THEN PlaceCell(grid, pos, currentPlayer) ELSE grid,
   currentTurn |-> currentTurn, status |-> status, winCondition |-> winCondition]

\* makeMove(position), lines 126-194: the result and the game state it sets
makeMove(pos) ==
  LET validation == validateMove(pos) IN
  IF ~validation.valid
  THEN [valid |-> FALSE, error |-> validation.error, grid |-> grid,
        currentTurn |-> currentTurn, status |-> status, winCondition |-> winCondition]
  ELSE
    LET placed == PlaceCell(grid, pos, currentPlayer)
        moved == [currentTurn EXCEPT !.moves = Append(@, pos)]
        victoryResult == checkConquerVictory(placed, players)
    IN IF victoryResult.hasWinner
       THEN [valid |-> TRUE, error |-> ErrNone, grid |-> placed,
             currentTurn |-> moved, status |-> StatusEnded,
             winCondition |-> victoryResult]
       ELSE [valid |-> TRUE, error |-> ErrNone, grid |-> placed,
             currentTurn |-> advanceToNextTurn(moved, players, options),
             status |-> status, winCondition |-> winCondition]

\* faulty variant: the turn is handed on whoever calls
passTurnAnyCaller == advanceToNextTurn(currentTurn, players, options)

\* passTurn (lines 215-221): the Turn of the game it sets
passTurn ==
  IF ~isMyTurn THEN currentTurn ELSE advanceToNextTurn(currentTurn, players, options)

\* faulty variant: the merged game is evaluated whatever its status
updateGameAlways(g, ps, st, wc) ==
  LET victoryResult == checkConquerVictory(g, ps) IN
  IF victoryResult.hasWinner
  THEN [status |-> StatusEnded, winCondition |-> victoryResult]
  ELSE [status |-> st, winCondition |-> wc]

\* updateGame of the hook (lines 466-498): the merged game is evaluated again
\* only while it is Running, and a result with hasWinner ends it
updateGame(g, ps, st, wc) ==
  LET victoryResult == checkConquerVictory(g, ps) IN
  IF st = StatusRunning /\ victoryResult.hasWinner
  THEN [status |-> StatusEnded, winCondition |-> victoryResult]
  ELSE [status |-> st, winCondition |-> wc]

----------------------------------------------------------------------------
(* GameManager *)

\* createdBy of the game: the player who created it, first of its players
createdBy == "p1"

\* the Turn of a game without one (currentTurn: null of createGame)
NoTurn == [turnNumber |-> 0, playerId |-> NoOwner, moves |-> <<>>,
           timeLimit |-> 0, timeRemaining |-> 0]

\* the result of a refused call
NullGame == [ok |-> FALSE, status |-> StatusPending, currentTurn |-> NoTurn]

\* startGame without the host check
startGameAnyCaller(caller) ==
  IF Len(players) < 2 THEN NullGame
  ELSE [ok |-> TRUE, status |-> StatusRunning,
        currentTurn |-> [turnNumber |-> 1, playerId |-> players[1], moves |-> <<>>,
                         timeLimit |-> options.turnTimeLimit,
                         timeRemaining |-> options.turnTimeLimit]]

\* GameManager.startGame(game) called by the device of caller: null unless
\* the caller is the host and the game has two players; otherwise the game
\* with status Running and a first Turn for players[0]. The grid is kept and
\* the status of the game is not read.
startGame(caller) ==
  IF caller # createdBy \/ Len(players) < 2 THEN NullGame
  ELSE [ok |-> TRUE, status |-> StatusRunning,
        currentTurn |-> [turnNumber |-> 1, playerId |-> players[1], moves |-> <<>>,
                         timeLimit |-> options.turnTimeLimit,
                         timeRemaining |-> options.turnTimeLimit]]


\* the options handed to updateGameOptions when none were
NoOptions == [gridSize |-> [width |-> 0, height |-> 0], minPlayers |-> 0,
              maxPlayers |-> 0, turnTimeLimit |-> 0, gameSpeed |-> 0,
              rocksPercentage |-> 0, maxNeutralEdges |-> 0]

\* the result of a refused update
NullOptions == [ok |-> FALSE, options |-> options, grid |-> grid]

\* GameManager.updateGameOptions(game, newOptions) called by the device of
\* caller, with a full option set and no gameTimeLimit: null unless the
\* caller is the host and grid size, player limits, turn time and game speed
\* are within their limits; otherwise the game with the merged options, and
\* a grid of createEmptyGrid when the size changed. The size of the options
\* of a game is the size of its grid.
updateGameOptions(caller, newOptions) ==
  IF \/ caller # createdBy
     \/ newOptions.gridSize.width < MinGridSize
     \/ newOptions.gridSize.width > MaxGridSize
     \/ newOptions.gridSize.height < MinGridSize
     \/ newOptions.gridSize.height > MaxGridSize
     \/ newOptions.minPlayers < MinPlayersLimit
     \/ newOptions.minPlayers > newOptions.maxPlayers
     \/ newOptions.maxPlayers < newOptions.minPlayers
     \/ newOptions.maxPlayers > MaxPlayersLimit
     \/ newOptions.turnTimeLimit < MinTurnTimeLimit
     \/ newOptions.turnTimeLimit > MaxTurnTimeLimit
     \/ newOptions.gameSpeed < MinGameSpeed
     \/ newOptions.gameSpeed > MaxGameSpeed
  THEN NullOptions
  ELSE [ok |-> TRUE,
        options |-> [maxNeutralEdges |-> newOptions.maxNeutralEdges,
                     rocksPercentage |-> newOptions.rocksPercentage,
                     turnTimeLimit |-> newOptions.turnTimeLimit],
        grid |-> IF newOptions.gridSize.width # grid.width
                    \/ newOptions.gridSize.height # grid.height
                 THEN createEmptyGrid(newOptions.gridSize.width,
                                      newOptions.gridSize.height)
                 ELSE grid]

----------------------------------------------------------------------------
(* State machine *)

\* placed is the grid a valid click hands to detectAndCaptureRegions
NoOp == [op |-> "none", pos |-> <<0, 0>>, player |-> NoOwner, valid |-> FALSE,
         error |-> ErrNone, placed |-> createEmptyGrid(0, 0),
         capturedRegions |-> <<>>, capturedCells |-> <<>>, scores |-> <<>>,
         submitted |-> NoOptions]

\* the positions handed to handleCellClick and on to makeMove: the cells of
\* the grid (the scene reports the cell under the pointer) and one position
\* beyond each of its four sides
ClickPositions ==
  Positions(grid) \cup {<<-1, 0>>, <<grid.width, 0>>, <<0, -1>>, <<0, grid.height>>}

\* the game handed to InGameScreen after GameManager.startGame: a grid from
\* createEmptyGrid, status Running, first turn for players[0]
Init ==
  /\ grid = createEmptyGrid(GridW, GridH)
  /\ \E m \in EdgeBudgets, r \in RocksPercentages :
       options = [maxNeutralEdges |-> m, rocksPercentage |-> r,
                  turnTimeLimit |-> DefaultTurnTimeLimit]
  /\ players = <<"p1", "p2">>
  /\ localIds \in {{"p1", "p2"}, {"p1"}}
  /\ currentTurn = [turnNumber |-> 1, playerId |-> players[1], moves |-> <<>>,
                    timeLimit |-> options.turnTimeLimit,
                    timeRemaining |-> options.turnTimeLimit]
  /\ status = StatusRunning
  /\ winCondition = NoWinCondition
  /\ validMoves = ValidMovesEffect(grid, status)
  /\ isInitialized = FALSE
  /\ resizes = 0
  /\ advances = 0
  /\ last = NoOp

\* GameCanvas, the scene initialisation effect (lines 336-405), run at mount
\* and whenever the canvas size changes. With a scene present the cleanup of
\* the previous run destroys it and the body returns early (it still reads
\* isInitialized = true); without one, a new ConquerScene is created and its
\* create() runs generateRocks on the game's grid.
CanvasEffect ==
  /\ resizes < MaxResizes
  /\ resizes' = resizes + 1
  /\ IF isInitialized
     THEN /\ isInitialized' = FALSE
          /\ grid' = grid
          /\ last' = [NoOp EXCEPT !.op = "destroy"]
     ELSE /\ isInitialized' = TRUE
          /\ \E rockPositions \in ShuffleOutcomes(grid, options.rocksPercentage) :
               grid' = generateRocks(grid, rockPositions)
          /\ last' = [NoOp EXCEPT !.op = "create"]
  /\ UNCHANGED <<options, players, localIds, currentTurn, status, winCondition,
                 validMoves, advances>>

\* InGameScreen.handleCellClick(position), called by the scene's pointer
\* handler: makeMove, then detectAndCaptureRegions for the mover
HandleCellClick(pos) ==
  /\ isInitialized
  /\ IF status = StatusEnded
     THEN /\ last' = [NoOp EXCEPT !.op = "blocked"]
          /\ UNCHANGED <<grid, currentTurn, status, winCondition, validMoves, advances>>
     ELSE LET result == makeMove(pos)
              capture == detectAndCaptureRegions(result.grid, pos, currentPlayer,
                                                 options.maxNeutralEdges)
          IN IF result.valid
             THEN /\ grid' = capture.grid
                  /\ currentTurn' = result.currentTurn
                  /\ status' = result.status
                  /\ winCondition' = result.winCondition
                  /\ validMoves' = ValidMovesEffect(capture.grid, result.status)
                  /\ advances' = IF result.status = StatusEnded
                                 THEN advances ELSE advances + 1
                  /\ last' = [op |-> "click", pos |-> pos, player |-> currentPlayer,
                              valid |-> TRUE, error |-> ErrNone,
                              placed |-> result.grid,
                              capturedRegions |-> capture.capturedRegions,
                              capturedCells |-> capture.capturedCells,
                              scores |-> <<>>, submitted |-> NoOptions]
             ELSE /\ grid' = result.grid
                  /\ currentTurn' = result.currentTurn
                  /\ status' = result.status
                  /\ winCondition' = result.winCondition
                  /\ validMoves' = validMoves
                  /\ advances' = advances
                  /\ last' = [NoOp EXCEPT !.op = "click", !.error = result.error]
  /\ UNCHANGED <<options, players, localIds, isInitialized, resizes>>

\* InGameScreen.handlePassTurn -> passTurn (lines 215-221)
PassTurn ==
  /\ advanceToNextTurn(currentTurn, players, options).turnNumber <= MaxTurnNumber
  /\ currentTurn' = passTurn
  /\ IF ~isMyTurn
     THEN /\ UNCHANGED <<validMoves, advances>>
          /\ last' = [NoOp EXCEPT !.op = "pass"]
     ELSE /\ validMoves' = ValidMovesEffect(grid, status)
          /\ advances' = advances + 1
          /\ last' = [NoOp EXCEPT !.op = "pass", !.valid = TRUE]
  /\ UNCHANGED <<grid, options, players, localIds, status, winCondition,
                 isInitialized, resizes>>

Next ==
  \/ CanvasEffect
  \/ \E pos \in ClickPositions : HandleCellClick(pos)
  \/ PassTurn

Spec == Init /\ [][Next]_vars


----------------------------------------------------------------------------
(* The capture engine called on the grids of one family *)

\* GameCanvasRef.detectAndCaptureRegions(lastMove, player): the imperative
\* handle hands the call to ConquerScene.detectAndCaptureRegions
DetectAndCapture(lastMove, player) ==
  /\ isInitialized
  /\ LET capture == detectAndCaptureRegions(grid, lastMove, player,
                                            options.maxNeutralEdges)
     IN /\ grid' = capture.grid
        /\ last' = [op |-> "capture", pos |-> lastMove, player |-> player,
                    valid |-> TRUE, error |-> ErrNone, placed |-> grid,
                    capturedRegions |-> capture.capturedRegions,
                    capturedCells |-> capture.capturedCells, scores |-> <<>>,
                    submitted |-> NoOptions]
  /\ UNCHANGED <<options, players, localIds, currentTurn, status, winCondition,
                 validMoves, isInitialized, resizes, advances>>

\* the hook and the canvas of a two-player game in progress
InPlay(maxEdges) ==
  /\ options = [maxNeutralEdges |-> maxEdges, rocksPercentage |-> 0,
                turnTimeLimit |-> DefaultTurnTimeLimit]
  /\ players = <<"p1", "p2">>
  /\ localIds = {"p1", "p2"}
  /\ currentTurn = [turnNumber |-> 1, playerId |-> "p1", moves |-> <<>>,
                    timeLimit |-> DefaultTurnTimeLimit,
                    timeRemaining |-> DefaultTurnTimeLimit]
  /\ status = StatusRunning
  /\ winCondition = NoWinCondition
  /\ validMoves = ValidMovesEffect(grid, status)
  /\ isInitialized = TRUE
  /\ resizes = 0
  /\ advances = 0
  /\ last = NoOp

SpecialKinds == {"rock", "opponent", "opponentRock"}

RegionCell(kind, opponent) ==
  IF kind = "rock" THEN [type |-> CellTypeRock, owner |-> NoOwner]
  ELSE IF kind = "opponent" THEN [type |-> CellTypeOccupied, owner |-> opponent]
  ELSE [type |-> CellTypeRock, owner |-> opponent]

\* a grid whose cells are Empty or owned by p1, except for the special cells:
\* a Rock, a cell of p2, or a cell of p2 that a later run of generateRocks
\* retyped Rock
RegionGrid(special, kind, moverCells) ==
  [width |-> RegionSize, height |-> RegionSize,
   cells |-> [p \in (0 .. RegionSize - 1) \X (0 .. RegionSize - 1) |->
     IF p \in special THEN RegionCell(kind[p], "p2")
     ELSE IF p \in moverCells THEN [type |-> CellTypeOccupied, owner |-> "p1"]
     ELSE [type |-> CellTypeEmpty, owner |-> NoOwner]]]

InitRegion ==
  /\ \E special \in SUBSET ((0 .. RegionSize - 1) \X (0 .. RegionSize - 1)) :
       /\ Cardinality(special) <= MaxSpecialCells
       /\ \E kind \in [special -> SpecialKinds],
             moverCells \in SUBSET (((0 .. RegionSize - 1) \X (0 .. RegionSize - 1)) \ special) :
            grid = RegionGrid(special, kind, moverCells)
  /\ InPlay(DefaultMaxNeutralEdges)

\* the call that follows a placement: lastMove is a cell the player occupies
NextRegion ==
  \E lastMove \in Positions(grid), player \in PlayerIds(players) :
    /\ last.op = "none"
    /\ CellAt(grid, lastMove) = [type |-> CellTypeOccupied, owner |-> player]
    /\ DetectAndCapture(lastMove, player)

SpecRegion == InitRegion /\ [][NextRegion]_vars

----------------------------------------------------------------------------
(* The border scenario: the smallest grid, its border owned by p1 *)

BorderGrid ==
  [width |-> MinGridSize, height |-> MinGridSize,
   cells |-> [p \in (0 .. MinGridSize - 1) \X (0 .. MinGridSize - 1) |->
     IF p[1] = 0 \/ p[1] = MinGridSize - 1 \/ p[2] = 0 \/ p[2] = MinGridSize - 1
     THEN [type |-> CellTypeOccupied, owner |-> "p1"]
     ELSE [type |-> CellTypeEmpty, owner |-> NoOwner]]]

InitBorder ==
  /\ grid = BorderGrid
  /\ \E m \in 0 .. MaxNeutralEdgesLimit : InPlay(m)

\* the call that follows the placement completing the border
NextBorder ==
  \E lastMove \in Positions(grid) :
    /\ last.op = "none"
    /\ CellAt(grid, lastMove) = [type |-> CellTypeOccupied, owner |-> "p1"]
    /\ DetectAndCapture(lastMove, "p1")

SpecBorder == InitBorder /\ [][NextBorder]_vars

----------------------------------------------------------------------------
(* The victory evaluator called on the games of one family: three players, *)
(* every cell Empty, a Rock, or Occupied by one of them                    *)

VictoryPlayers == <<"p1", "p2", "p3">>

VictoryCells ==
  {[type |-> CellTypeEmpty, owner |-> NoOwner], [type |-> CellTypeRock, owner |-> NoOwner]}
  \cup {[type |-> CellTypeOccupied, owner |-> id] : id \in SeqToSet(VictoryPlayers)}

InitVictory ==
  /\ \E cells \in [Positions(createEmptyGrid(VictoryW, VictoryH)) -> VictoryCells] :
       grid = [width |-> VictoryW, height |-> VictoryH, cells |-> cells]
  /\ options = [maxNeutralEdges |-> DefaultMaxNeutralEdges, rocksPercentage |-> 0,
                turnTimeLimit |-> DefaultTurnTimeLimit]
  /\ players = VictoryPlayers
  /\ localIds = SeqToSet(VictoryPlayers)
  /\ currentTurn = [turnNumber |-> 1, playerId |-> "p1", moves |-> <<>>,
                    timeLimit |-> DefaultTurnTimeLimit,
                    timeRemaining |-> DefaultTurnTimeLimit]
  /\ status = StatusRunning
  /\ winCondition = NoWinCondition
  /\ validMoves = ValidMovesEffect(grid, status)
  /\ isInitialized = TRUE
  /\ resizes = 0
  /\ advances = 0
  /\ last = NoOp

\* updateGame({}) : the hook evaluates the game it holds
UpdateGame ==
  LET result == updateGame(grid, players, status, winCondition) IN
  /\ status' = result.status
  /\ winCondition' = result.winCondition
  /\ validMoves' = ValidMovesEffect(grid, result.status)
  /\ last' = [NoOp EXCEPT !.op = "update", !.placed = grid]
  /\ UNCHANGED <<grid, options, players, localIds, currentTurn, isInitialized, resizes,
                 advances>>

NextVictory == last.op = "none" /\ UpdateGame

SpecVictory == InitVictory /\ [][NextVictory]_vars

----------------------------------------------------------------------------
(* Games on a grid with an interior cell, played by placements alone from  *)
(* the state the mounted canvas leaves: the rocks are generated once, on    *)
(* one representative position per symmetry class                         *)

\* one position of each orbit of the symmetries of the square grid
FundamentalPositions(n) ==
  {p \in (0 .. n - 1) \X (0 .. n - 1) : p[2] <= p[1] /\ 2 * p[1] <= n - 1}

InitSettled ==
  /\ \E rockPositions \in ShuffleOutcomes(createEmptyGrid(SettledSize, SettledSize),
                                          SettledRocksPercentage) :
       /\ rockPositions \subseteq FundamentalPositions(SettledSize)
       /\ grid = generateRocks(createEmptyGrid(SettledSize, SettledSize), rockPositions)
  /\ options = [maxNeutralEdges |-> DefaultMaxNeutralEdges,
                rocksPercentage |-> SettledRocksPercentage,
                turnTimeLimit |-> DefaultTurnTimeLimit]
  /\ players = <<"p1", "p2">>
  /\ localIds = {"p1", "p2"}
  /\ currentTurn = [turnNumber |-> 1, playerId |-> players[1], moves |-> <<>>,
                    timeLimit |-> options.turnTimeLimit,
                    timeRemaining |-> options.turnTimeLimit]
  /\ status = StatusRunning
  /\ winCondition = NoWinCondition
  /\ validMoves = ValidMovesEffect(grid, status)
  /\ isInitialized = TRUE
  /\ resizes = 1
  /\ advances = 0
  /\ last = NoOp

NextSettled == \E pos \in Positions(grid) : HandleCellClick(pos)

SpecSettled == InitSettled /\ [][NextSettled]_vars

----------------------------------------------------------------------------
(* A three-player game on one device, played by placements and passes      *)

InitTurns ==
  /\ grid = createEmptyGrid(GridW, GridH)
  /\ \E m \in EdgeBudgets :
       options = [maxNeutralEdges |-> m, rocksPercentage |-> 0,
                  turnTimeLimit |-> DefaultTurnTimeLimit]
  /\ players = <<"p1", "p2", "p3">>
  /\ localIds = {"p1", "p2", "p3"}
  /\ currentTurn = [turnNumber |-> 1, playerId |-> players[1], moves |-> <<>>,
                    timeLimit |-> options.turnTimeLimit,
                    timeRemaining |-> options.turnTimeLimit]
  /\ status = StatusRunning
  /\ winCondition = NoWinCondition
  /\ validMoves = ValidMovesEffect(grid, status)
  /\ isInitialized = TRUE
  /\ resizes = 1
  /\ advances = 0
  /\ last = NoOp

NextTurns ==
  \/ \E pos \in Positions(grid) : HandleCellClick(pos)
  \/ PassTurn

SpecTurns == InitTurns /\ [][NextTurns]_vars

----------------------------------------------------------------------------
(* The score projection of InGameScreen on the games of one family: in     *)
(* scan order the cells of p1, the cells of p2, Empty cells, Rocks          *)

ScoreGrid(mine, others, rocks) ==
  [width |-> ScoreW, height |-> ScoreH,
   cells |-> [p \in Positions(createEmptyGrid(ScoreW, ScoreH)) |->
     LET i == p[2] * ScoreW + p[1] IN
     IF i < mine THEN [type |-> CellTypeOccupied, owner |-> "p1"]
     ELSE IF i < mine + others THEN [type |-> CellTypeOccupied, owner |-> "p2"]
     ELSE IF i >= ScoreW * ScoreH - rocks THEN [type |-> CellTypeRock, owner |-> NoOwner]
     ELSE [type |-> CellTypeEmpty, owner |-> NoOwner]]]

InitScore ==
  /\ \E mine \in 0 .. ScoreW * ScoreH, others \in 0 .. MaxScoreOthers,
        rocks \in 0 .. MaxScoreRocks :
       /\ mine + others + rocks <= ScoreW * ScoreH
       /\ grid = ScoreGrid(mine, others, rocks)
  /\ options = [maxNeutralEdges |-> DefaultMaxNeutralEdges, rocksPercentage |-> 0,
                turnTimeLimit |-> DefaultTurnTimeLimit]
  /\ players = <<"p1", "p2">>
  /\ localIds = {"p1", "p2"}
  /\ currentTurn = [turnNumber |-> 1, playerId |-> "p1", moves |-> <<>>,
                    timeLimit |-> DefaultTurnTimeLimit,
                    timeRemaining |-> DefaultTurnTimeLimit]
  /\ \/ status = StatusRunning /\ winCondition = NoWinCondition
     \/ /\ status = StatusEnded
        /\ checkConquerVictory(grid, players).hasWinner
        /\ winCondition = checkConquerVictory(grid, players)
  /\ validMoves = ValidMovesEffect(grid, status)
  /\ isInitialized = TRUE
  /\ resizes = 1
  /\ advances = 0
  /\ last = NoOp

\* InGameScreen, lines 84-89: scores = players.map(p => calculateScore(game, p))
CalculateScores ==
  /\ last' = [NoOp EXCEPT !.op = "score",
                          !.scores = [i \in 1 .. Len(players) |->
                                        calculateScore(grid, players[i])]]
  /\ UNCHANGED <<grid, options, players, localIds, currentTurn, status, winCondition,
                 validMoves, isInitialized, resizes, advances>>

NextScore == CalculateScores

SpecScore == InitScore /\ [][NextScore]_vars

----------------------------------------------------------------------------
(* A game from its lobby on: created Pending, started by the host, played, *)
(* and started again from the lobby                                        *)

\* the game of createGame (status Pending, no Turn, grid of createEmptyGrid)
\* alone or joined by a second player; the in-game screen is not mounted
InitLobby ==
  /\ grid = createEmptyGrid(GridW, GridH)
  /\ \E m \in EdgeBudgets :
       options = [maxNeutralEdges |-> m, rocksPercentage |-> 0,
                  turnTimeLimit |-> DefaultTurnTimeLimit]
  /\ players \in {<<"p1">>, <<"p1", "p2">>}
  /\ localIds = PlayerIds(players)
  /\ currentTurn = NoTurn
  /\ status = StatusPending
  /\ winCondition = NoWinCondition
  /\ validMoves = {}
  /\ isInitialized = FALSE
  /\ resizes = 0
  /\ advances = 0
  /\ last = NoOp

\* Lobby, end of the countdown (lines 218-231): gm.startGame(currentGame) and,
\* when it returns a game, navigation to the in-game screen, whose hook takes
\* the started game (a new startedAt) and whose canvas is mounted anew. The
\* game the lobby holds is the copy stored before the last placement: its
\* grid is the object the hook and the scene write to, its status is the one
\* of that copy and it has no winCondition.
StartGame(caller) ==
  LET started == startGame(caller) IN
  IF started.ok
  THEN /\ status' = started.status
       /\ currentTurn' = started.currentTurn
       /\ winCondition' = NoWinCondition
       /\ validMoves' = ValidMovesEffect(grid, started.status)
       /\ isInitialized' = FALSE
       /\ resizes' = 0
       /\ advances' = 0
       /\ last' = [NoOp EXCEPT !.op = "start", !.player = caller, !.valid = TRUE]
       /\ UNCHANGED <<grid, options, players, localIds>>
  ELSE /\ last' = [NoOp EXCEPT !.op = "start", !.player = caller]
       /\ UNCHANGED <<grid, options, players, localIds, currentTurn, status,
                      winCondition, validMoves, isInitialized, resizes, advances>>

NextLobby ==
  \/ \E caller \in PlayerIds(players) : StartGame(caller)
  \/ status # StatusPending /\ CanvasEffect
  \/ \E pos \in Positions(grid) : HandleCellClick(pos)
  \/ status # StatusPending /\ PassTurn

SpecLobby == InitLobby /\ [][NextLobby]_vars

----------------------------------------------------------------------------
(* The rock generator on the fresh grid of a started game *)

SliderPercentages ==
  {RocksSliderStep * i : i \in 0 .. RocksSliderMax \div RocksSliderStep}

\* a game just started on a grid of createEmptyGrid, its canvas not mounted
InitRocks ==
  /\ \E w \in MinGridSize .. RocksMaxW, h \in MinGridSize .. RocksMaxH :
       grid = createEmptyGrid(w, h)
  /\ \E r \in SliderPercentages :
       options = [maxNeutralEdges |-> DefaultMaxNeutralEdges, rocksPercentage |-> r,
                  turnTimeLimit |-> DefaultTurnTimeLimit]
  /\ players = <<"p1", "p2">>
  /\ localIds = {"p1", "p2"}
  /\ currentTurn = [turnNumber |-> 1, playerId |-> "p1", moves |-> <<>>,
                    timeLimit |-> DefaultTurnTimeLimit,
                    timeRemaining |-> DefaultTurnTimeLimit]
  /\ status = StatusRunning
  /\ winCondition = NoWinCondition
  /\ validMoves = ValidMovesEffect(grid, status)
  /\ isInitialized = FALSE
  /\ resizes = 0
  /\ advances = 0
  /\ last = NoOp

\* the positions a shuffle puts first: the first rockCount positions in scan
\* order, moved on by a number of cells
ShuffledFirst(g, rockCount, shift) ==
  {pos \in Positions(g) :
     (PosY(pos) * g.width + PosX(pos) + shift) % (g.width * g.height) < rockCount}

\* the scene initialisation effect at mount: the ConquerScene is created and
\* create() runs generateRocks
CreateScene ==
  /\ ~isInitialized
  /\ isInitialized' = TRUE
  /\ resizes' = resizes + 1
  /\ \E shift \in 0 .. MaxShuffles - 1 :
       grid' = generateRocks(grid, ShuffledFirst(grid,
                 RockCount(grid, options.rocksPercentage), shift))
  /\ last' = [NoOp EXCEPT !.op = "create"]
  /\ UNCHANGED <<options, players, localIds, currentTurn, status, winCondition,
                 validMoves, advances>>

NextRocks == CreateScene

SpecRocks == InitRocks /\ [][NextRocks]_vars

----------------------------------------------------------------------------
(* The options of a game in its lobby *)

\* the option sets handed to updateGameOptions
SubmittedOptions ==
  [gridSize : [width : {MinGridSize - 1, MinGridSize, DefaultGridSize},
               height : {DefaultGridSize, MaxGridSize + 1}],
   minPlayers : {MinPlayersLimit},
   maxPlayers : {4, MaxPlayersLimit + 1},
   turnTimeLimit : {DefaultTurnTimeLimit},
   gameSpeed : {10},
   rocksPercentage : {10, 91},
   maxNeutralEdges : {DefaultMaxNeutralEdges, MaxNeutralEdgesLimit + 1}]

\* the game of createGame with DEFAULT_CONQUER_OPTIONS, joined by a second
\* player
InitOptions ==
  /\ grid = createEmptyGrid(DefaultGridSize, DefaultGridSize)
  /\ options = [maxNeutralEdges |-> DefaultMaxNeutralEdges, rocksPercentage |-> 10,
                turnTimeLimit |-> DefaultTurnTimeLimit]
  /\ players = <<"p1", "p2">>
  /\ localIds = {"p1", "p2"}
  /\ currentTurn = NoTurn
  /\ status = StatusPending
  /\ winCondition = NoWinCondition
  /\ validMoves = {}
  /\ isInitialized = FALSE
  /\ resizes = 0
  /\ advances = 0
  /\ last = NoOp

\* Lobby.handleSaveOptions(options) (lines 284-288)
SaveOptions(caller, newOptions) ==
  LET updated == updateGameOptions(caller, newOptions) IN
  /\ options' = updated.options
  /\ grid' = updated.grid
  /\ last' = [NoOp EXCEPT !.op = "options", !.player = caller,
                          !.valid = updated.ok, !.submitted = newOptions]
  /\ UNCHANGED <<players, localIds, currentTurn, status, winCondition, validMoves,
                 isInitialized, resizes, advances>>

NextOptions ==
  \E caller \in PlayerIds(players), newOptions \in SubmittedOptions :
    SaveOptions(caller, newOptions)

SpecOptions == InitOptions /\ [][NextOptions]_vars

----------------------------------------------------------------------------
(* Game data merged into the game the hook holds *)

MergeCells ==
  {[type |-> CellTypeEmpty, owner |-> NoOwner], [type |-> CellTypeRock, owner |-> NoOwner],
   [type |-> CellTypeOccupied, owner |-> "p1"], [type |-> CellTypeOccupied, owner |-> "p2"]}

\* the grids handed to updateGame
MergeGrids ==
  {[width |-> GridW, height |-> GridH, cells |-> cells] :
     cells \in [Positions(createEmptyGrid(GridW, GridH)) -> MergeCells]}

\* a two-player game just started, its canvas mounted
InitMerge ==
  /\ grid = createEmptyGrid(GridW, GridH)
  /\ InPlay(DefaultMaxNeutralEdges)

\* updateGame({grid: g}): neither status nor winCondition is supplied
MergeGameData(g) ==
  LET result == updateGame(g, players, status, winCondition) IN
  /\ grid' = g
  /\ status' = result.status
  /\ winCondition' = result.winCondition
  /\ validMoves' = ValidMovesEffect(g, result.status)
  /\ last' = [NoOp EXCEPT !.op = "merge", !.placed = g]
  /\ UNCHANGED <<options, players, localIds, currentTurn, isInitialized, resizes,
                 advances>>

NextMerge == \E g \in MergeGrids : MergeGameData(g)

SpecMerge == InitMerge /\ [][NextMerge]_vars

----------------------------------------------------------------------------
(* Reference definitions of the properties *)

\* the last step called the capture engine: a direct call, or an accepted click
CaptureRan == last.valid /\ last.op \in {"capture", "click"}

Neighbours(p, q) ==
  \/ (p[1] = q[1] /\ (p[2] - q[2] = 1 \/ q[2] - p[2] = 1))
  \/ (p[2] = q[2] /\ (p[1] - q[1] = 1 \/ q[1] - p[1] = 1))

\* a cell that is Empty or owned by a player other than the mover
OpenToCapture(g, p, mover) ==
  \/ g.cells[p].type = CellTypeEmpty
  \/ (g.cells[p].owner # NoOwner /\ g.cells[p].owner # mover)

RECURSIVE Closure(_, _, _)
Closure(g, mover, S) ==
  LET more == {q \in Positions(g) :
                 OpenToCapture(g, q, mover) /\ \E p \in S : Neighbours(p, q)}
  IN IF more \subseteq S THEN S ELSE Closure(g, mover, S \cup more)

\* the maximal 4-connected set of such cells around the seed
Component(g, seed, mover) == Closure(g, mover, {seed})

\* the sides of cell p that face outside the grid
OutsideSides(g, p) ==
  (IF p[1] = 0 THEN 1 ELSE 0) + (IF p[1] = g.width - 1 THEN 1 ELSE 0)
  + (IF p[2] = 0 THEN 1 ELSE 0) + (IF p[2] = g.height - 1 THEN 1 ELSE 0)

RECURSIVE EdgeCountOf(_, _)
EdgeCountOf(g, S) ==
  IF S = {} THEN 0
  ELSE LET p == CHOOSE q \in S : TRUE
       IN OutsideSides(g, p) + EdgeCountOf(g, S \ {p})

OpponentOnBorder(g, S, mover) ==
  \E p \in S : /\ g.cells[p].owner # NoOwner /\ g.cells[p].owner # mover
               /\ OutsideSides(g, p) > 0

\* every in-grid neighbour outside S is a Rock or owned by the mover
Enclosed(g, S, mover) ==
  \A p \in S, q \in Positions(g) \ S :
    Neighbours(p, q) => (g.cells[q].type = CellTypeRock \/ g.cells[q].owner = mover)

\* the seeds of the last call: the in-grid neighbours of the placed cell that
\* are neither owned by the mover nor a Rock
SeedsOfLastCall ==
  {q \in Positions(last.placed) :
     /\ Neighbours(last.pos, q)
     /\ last.placed.cells[q].owner # last.player
     /\ last.placed.cells[q].type # CellTypeRock}

OwnedBy(g, id) == {p \in Positions(g) : g.cells[p].owner = id}

CapturedSet == SeqToSet(last.capturedCells)

RECURSIVE TotalLen(_)
TotalLen(regions) ==
  IF regions = <<>> THEN 0 ELSE Len(Head(regions)) + TotalLen(Tail(regions))

----------------------------------------------------------------------------
(* Properties of the capture engine *)

HardEdgeVeto ==
  CaptureRan =>
    \A seed \in SeedsOfLastCall :
      LET cells == FloodFill(last.placed, seed, last.player)
          S == SeqToSet(cells)
      IN OpponentOnBorder(last.placed, S, last.player) =>
           /\ \A m \in 0 .. MaxNeutralEdgesLimit :
                ~CheckEnclosure(last.placed, cells, last.player, m).found
           /\ ~detectEnclosedRegion(last.placed, seed, last.player,
                                    options.maxNeutralEdges).found
           /\ \A p \in S : grid.cells[p] = last.placed.cells[p]

\* C2 witness: the veto alone rejected a region: it is enclosed and within
\* the budget, and holds an opponent's cell on the border
HardEdgeVetoWitness ==
  /\ CaptureRan
  /\ \E seed \in SeedsOfLastCall :
       LET S == Component(last.placed, seed, last.player) IN
         /\ OpponentOnBorder(last.placed, S, last.player)
         /\ Enclosed(last.placed, S, last.player)
         /\ EdgeCountOf(last.placed, S) <= options.maxNeutralEdges
         /\ \A p \in S : grid.cells[p] = last.placed.cells[p]

\* C3: from a seed that is in bounds, not the mover's and not a Rock, the
\* flood fill lists exactly the maximal 4-connected set of cells that are
\* Empty or owned by another player; it lists no Rock, no cell of the mover,
\* no position off the grid and no cell twice.
RegionDiscovery ==
  CaptureRan =>
    \A seed \in SeedsOfLastCall :
      LET cells == FloodFill(last.placed, seed, last.player) IN
        /\ SeqToSet(cells) = Component(last.placed, seed, last.player)
        /\ Cardinality(SeqToSet(cells)) = Len(cells)
        /\ \A i \in 1 .. Len(cells) :
             /\ cells[i] \in Positions(last.placed)
             /\ last.placed.cells[cells[i]].type # CellTypeRock
             /\ last.placed.cells[cells[i]].owner # last.player

\* C4: every cell of every returned region is Occupied and owned by the
\* mover after the call, whoever owned it before.
OwnershipTransfer ==
  CaptureRan =>
    \A i \in 1 .. Len(last.capturedRegions) :
      \A j \in 1 .. Len(last.capturedRegions[i]) :
        grid.cells[last.capturedRegions[i][j]]
          = [type |-> CellTypeOccupied, owner |-> last.player]

\* C4 witness: a returned region held a cell of the other player
OwnershipTransferWitness ==
  /\ CaptureRan
  /\ \E p \in CapturedSet :
       /\ last.placed.cells[p].owner # NoOwner
       /\ last.placed.cells[p].type = CellTypeOccupied
       /\ grid.cells[p].owner = last.player

\* C5: the call raises the number of cells the mover owns by the total
\* number of cells of the returned regions, which is the length of
\* capturedCells, and no position is in two returned regions.
CaptureConservation ==
  CaptureRan =>
    /\ Cardinality(OwnedBy(grid, last.player))
         - Cardinality(OwnedBy(last.placed, last.player))
         = TotalLen(last.capturedRegions)
    /\ TotalLen(last.capturedRegions) = Len(last.capturedCells)
    /\ \A i, j \in 1 .. Len(last.capturedRegions) :
         i # j => SeqToSet(last.capturedRegions[i])
                    \cap SeqToSet(last.capturedRegions[j]) = {}

\* C5 witness: two neighbours of the placed cell lay in one captured region
CaptureConservationWitness ==
  /\ CaptureRan
  /\ \E i \in 1 .. Len(last.capturedRegions) :
       \E p, q \in SeqToSet(last.capturedRegions[i]) :
         p # q /\ Neighbours(last.pos, p) /\ Neighbours(last.pos, q)

\* the cells inside the border of the grid
CentreCells(g) == {p \in Positions(g) : OutsideSides(g, p) = 0}

\* C6 as stated: completing the border captures nothing when
\* maxNeutralEdges = 0 and exactly the centre cells when maxNeutralEdges = 4.
BorderScenarioAsStated ==
  CaptureRan =>
    /\ options.maxNeutralEdges = 0 =>
         /\ last.capturedCells = <<>>
         /\ \A p \in CentreCells(grid) : grid.cells[p].type = CellTypeEmpty
    /\ options.maxNeutralEdges = 4 =>
         /\ CapturedSet = CentreCells(grid)
         /\ \A p \in CentreCells(grid) : grid.cells[p].owner = last.player

\* C6: the centre region has no edge occurrence, so the budget plays no
\* part: for every maxNeutralEdges 0..20 the placement completing the border
\* captures exactly the centre cells when the placed cell has a centre cell
\* as neighbour, and nothing when it is a corner.
BorderScenario ==
  CaptureRan =>
    IF \E p \in CentreCells(grid) : Neighbours(last.pos, p)
    THEN /\ CapturedSet = CentreCells(grid)
         /\ Len(last.capturedCells) = Cardinality(CentreCells(grid))
         /\ \A p \in CentreCells(grid) :
              grid.cells[p] = [type |-> CellTypeOccupied, owner |-> last.player]
    ELSE /\ last.capturedCells = <<>>
         /\ grid = last.placed

\* C6 witness: with maxNeutralEdges = 0 the centre cells were captured
BorderScenarioWitness ==
  /\ CaptureRan
  /\ options.maxNeutralEdges = 0
  /\ CapturedSet = CentreCells(grid)
  /\ CapturedSet # {}

\* C7: each candidate area next to the placed cell is afterwards either
\* owned by the mover throughout or unchanged throughout; every cell outside
\* the returned regions, every Rock and every cell the mover already owned
\* is unchanged.
AllOrNothing ==
  CaptureRan =>
    /\ \A seed \in Positions(last.placed) :
         (Neighbours(last.pos, seed) /\ OpenToCapture(last.placed, seed, last.player)) =>
           LET area == Component(last.placed, seed, last.player) IN
             \/ \A p \in area : grid.cells[p].owner = last.player
             \/ \A p \in area : grid.cells[p] = last.placed.cells[p]
    /\ \A p \in Positions(grid) \ CapturedSet : grid.cells[p] = last.placed.cells[p]
    /\ \A p \in Positions(grid) :
         (last.placed.cells[p].type = CellTypeRock
          \/ last.placed.cells[p].owner = last.player)
           => grid.cells[p] = last.placed.cells[p]

----------------------------------------------------------------------------
(* Properties of the hook *)

\* C8 as stated: the three checks in order, and a position passing all three
\* is reported valid.
ValidationOrderAsStated ==
  \A pos \in ClickPositions :
    validateMove(pos) =
      IF ~(pos \in Positions(grid)) THEN Invalid(ErrOutOfBounds)
      ELSE IF currentTurn.playerId \notin localIds THEN Invalid(ErrNotYourTurn)
      ELSE IF grid.cells[pos].type # CellTypeEmpty THEN Invalid(ErrNotEmpty)
      ELSE Valid

\* C8: validateMove checks, in this order, the bounds, the turn and the
\* emptiness of the cell, and the first failing check gives the error; a
\* position passing all three is valid while the game is Running and is
\* rejected as an invalid move otherwise.
ValidationOrder ==
  \A pos \in ClickPositions :
    validateMove(pos) =
      IF ~(pos \in Positions(grid)) THEN Invalid(ErrOutOfBounds)
      ELSE IF currentTurn.playerId \notin localIds THEN Invalid(ErrNotYourTurn)
      ELSE IF grid.cells[pos].type # CellTypeEmpty THEN Invalid(ErrNotEmpty)
      ELSE IF status = StatusRunning THEN Valid
      ELSE Invalid(ErrInvalidMove)

\* C8 witness: a click outside the grid on the turn of a player who is not
\* local was rejected as out of bounds
ValidationOrderWitness ==
  /\ last.op = "click" /\ ~last.valid
  /\ last.error = ErrOutOfBounds
  /\ currentTurn.playerId \notin localIds

\* C9: a rejected move leaves the grid, currentTurn, the status and
\* winCondition as they were.
RejectedMoveMutatesNothing ==
  [][(last'.op = "click" /\ ~last'.valid)
       => UNCHANGED <<grid, currentTurn, status, winCondition>>]_vars

\* C9 witness: a click on a cell that is not Empty was rejected
RejectedMoveWitness ==
  /\ last.op = "click" /\ ~last.valid
  /\ last.error = ErrNotEmpty

\* the cells the evaluator counts as playable: all but the ownerless Rocks
PlayableOf(g) ==
  Cardinality({p \in Positions(g) :
                 ~(g.cells[p].type = CellTypeRock /\ g.cells[p].owner = NoOwner)})

EmptyOf(g) ==
  Cardinality({p \in Positions(g) :
                 g.cells[p].type = CellTypeEmpty /\ g.cells[p].owner = NoOwner})

\* the leaders: the players no other player reaches or exceeds, even with
\* every Empty cell
Uncatchable(g, ps) ==
  {l \in SeqToSet(ps) :
     /\ Cardinality(OwnedBy(g, l)) > 0
     /\ \A t \in SeqToSet(ps) \ {l} :
          /\ Cardinality(OwnedBy(g, t)) <= Cardinality(OwnedBy(g, l))
          /\ Cardinality(OwnedBy(g, t)) + EmptyOf(g) <= Cardinality(OwnedBy(g, l))}

LeadIs(g, ps, n) ==
  /\ \E l \in SeqToSet(ps) : Cardinality(OwnedBy(g, l)) = n
  /\ \A t \in SeqToSet(ps) : Cardinality(OwnedBy(g, t)) <= n

\* C10 as stated: floor(P/2)+1 cells win, and with the leader at floor(P/2)
\* cells and Empty cells left nobody has won.
MajorityExampleAsStated ==
  (last.op = "click" /\ last.valid) =>
    LET g == last.placed
        r == checkConquerVictory(g, players)
    IN /\ \A id \in SeqToSet(players) :
            Cardinality(OwnedBy(g, id)) >= (PlayableOf(g) \div 2) + 1
              => (r.hasWinner /\ r.winners = <<id>>)
       /\ (LeadIs(g, players, PlayableOf(g) \div 2) /\ EmptyOf(g) > 0)
            => ~r.hasWinner

\* C10: a player owning floor(P/2)+1 cells is declared the only winner and
\* the move that got there ends the game; with the leader at floor(P/2)
\* cells and Empty cells left, a winner is declared exactly when no other
\* player's count plus the Empty cells exceeds the leader's count, and it
\* is that leader.
MajorityExample ==
  (last.op = "click" /\ last.valid) =>
    LET g == last.placed
        r == checkConquerVictory(g, players)
    IN /\ \A id \in SeqToSet(players) :
            Cardinality(OwnedBy(g, id)) >= (PlayableOf(g) \div 2) + 1
              => /\ r.hasWinner /\ r.winners = <<id>>
                 /\ status = StatusEnded /\ winCondition = r
       /\ (LeadIs(g, players, PlayableOf(g) \div 2) /\ EmptyOf(g) > 0)
            => /\ r.hasWinner <=> Uncatchable(g, players) # {}
               /\ r.hasWinner => SeqToSet(r.winners) = Uncatchable(g, players)
               /\ r.hasWinner <=> status = StatusEnded

\* C10 witness: the mover reached floor(P/2) cells, Empty cells were left
\* and the move ended the game
MajorityExampleWitness ==
  /\ last.op = "click" /\ last.valid
  /\ LeadIs(last.placed, players, PlayableOf(last.placed) \div 2)
  /\ Cardinality(OwnedBy(last.placed, last.player)) = PlayableOf(last.placed) \div 2
  /\ EmptyOf(last.placed) > 0
  /\ status = StatusEnded

----------------------------------------------------------------------------
(* Properties of the victory evaluator *)

\* the last step was an accepted click: last.placed is the grid the
\* evaluator was given
MoveAccepted == last.op = "click" /\ last.valid

\* C11 as stated: the majority check declares a player exactly when the
\* player's count exceeds floor(playableCells/2)+1.
MajorityRuleAsStated ==
  MoveAccepted =>
    MajorityHolders(last.placed, players)
      = {id \in SeqToSet(players) :
           Cardinality(OwnedBy(last.placed, id)) > (PlayableOf(last.placed) \div 2) + 1}

\* C11: the majority check declares a player, as the only winner, exactly
\* when the player's count is at least floor(playableCells/2)+1; the move
\* then ends the game with that result.
MajorityRule ==
  MoveAccepted =>
    LET g == last.placed
        holders == {id \in SeqToSet(players) :
                      Cardinality(OwnedBy(g, id)) >= (PlayableOf(g) \div 2) + 1}
    IN /\ MajorityHolders(g, players) = holders
       /\ Cardinality(holders) <= 1
       /\ \A id \in holders :
            /\ checkConquerVictory(g, players)
                 = [hasWinner |-> TRUE, winners |-> <<id>>, type |-> VictoryMajority]
            /\ winCondition = checkConquerVictory(g, players)
            /\ status = StatusEnded

\* C11 witness: the mover reached exactly floor(playableCells/2)+1 cells
\* and was declared the winner
MajorityRuleWitness ==
  /\ MoveAccepted
  /\ Cardinality(OwnedBy(last.placed, last.player))
       = (PlayableOf(last.placed) \div 2) + 1
  /\ winCondition.hasWinner /\ winCondition.winners = <<last.player>>

\* the last step evaluated the game through updateGame
Evaluated == last.op = "update"

\* the k-th largest of the players' cell counts
RankedCount(g, ps, k) ==
  CHOOSE c \in 0 .. Cardinality(Positions(g)) :
    /\ Cardinality({i \in 1 .. Len(ps) : Cardinality(OwnedBy(g, ps[i])) > c}) < k
    /\ Cardinality({i \in 1 .. Len(ps) : Cardinality(OwnedBy(g, ps[i])) >= c}) >= k

\* nobody owns floor(P/2)+1 cells
NoMajorityIn(g, ps) ==
  \A id \in SeqToSet(ps) :
    Cardinality(OwnedBy(g, id)) < (PlayableOf(g) \div 2) + 1

\* C12: on a grid with an Empty cell and no majority holder the evaluator
\* declares a winner exactly when the leader owns a cell and the
\* second-ranked count plus the Empty cells does not exceed the leader's
\* count; the winner is then the leader alone, and the test on the
\* second-ranked player agrees with the test on every trailing player.
ImpossibilityShortcut ==
  (Evaluated /\ EmptyOf(last.placed) >= 1 /\ NoMajorityIn(last.placed, players)) =>
    LET g == last.placed
        lead == RankedCount(g, players, 1)
        second == RankedCount(g, players, 2)
        settled == lead >= 1 /\ ~(second + EmptyOf(g) > lead)
        result == checkConquerVictory(g, players)
    IN /\ result.hasWinner <=> settled
       /\ settled <=> Uncatchable(g, players) # {}
       /\ settled =>
            /\ Len(result.winners) = 1
            /\ Cardinality(OwnedBy(g, result.winners[1])) = lead
            /\ Uncatchable(g, players) = {result.winners[1]}
            /\ winCondition = result
            /\ status = StatusEnded
       /\ ~settled => (result = NoWinner /\ status = StatusRunning)

\* C12 witness: three players, the second-ranked one draws level with the
\* leader if given every Empty cell, and the leader is declared the winner
ImpossibilityShortcutWitness ==
  /\ Evaluated
  /\ EmptyOf(last.placed) >= 1
  /\ NoMajorityIn(last.placed, players)
  /\ RankedCount(last.placed, players, 2) >= 1
  /\ RankedCount(last.placed, players, 2) + EmptyOf(last.placed)
       = RankedCount(last.placed, players, 1)
  /\ RankedCount(last.placed, players, 3) < RankedCount(last.placed, players, 2)
  /\ winCondition.hasWinner
  /\ Len(winCondition.winners) = 1

\* the grid after a legal placement of player id on pos and its captures
PlacementOutcome(g, pos, id, maxEdges) ==
  detectAndCaptureRegions(PlaceCell(g, pos, id), pos, id, maxEdges).grid

\* the grids one further placement of the next player in turn order leads to
Continuations(g) ==
  LET next == advanceToNextTurn(currentTurn, players, options).playerId
  IN {PlacementOutcome(g, pos, next, options.maxNeutralEdges) :
        pos \in {p \in Positions(g) : g.cells[p].type = CellTypeEmpty}}

\* the last move ended the game for a single winner with Empty cells left
EarlyTermination ==
  /\ MoveAccepted
  /\ status = StatusEnded
  /\ Len(winCondition.winners) = 1
  /\ EmptyOf(last.placed) >= 1

\* C13: when a move ends the game early, the outcome is settled: no further
\* legal placement with its captures leads from the resulting grid to a grid
\* where another player owns more cells than the declared winner.
SettledOutcome ==
  EarlyTermination =>
    \A g \in Continuations(grid), id \in SeqToSet(players) :
      Cardinality(OwnedBy(g, id)) <= Cardinality(OwnedBy(g, winCondition.winners[1]))

\* C14: on a grid without Empty cells where nobody holds a majority and
\* somebody owns a cell, the evaluator returns a winner result whose winners
\* are exactly the players at the maximum count, each listed once.
FullGridResult ==
  (/\ Evaluated
   /\ EmptyOf(last.placed) = 0
   /\ NoMajorityIn(last.placed, players)
   /\ \E id \in SeqToSet(players) : OwnedBy(last.placed, id) # {}) =>
    LET g == last.placed
        result == checkConquerVictory(g, players)
        top == {id \in SeqToSet(players) :
                  Cardinality(OwnedBy(g, id)) = RankedCount(g, players, 1)}
    IN /\ result.hasWinner
       /\ SeqToSet(result.winners) = top
       /\ Len(result.winners) = Cardinality(top)
       /\ winCondition = result
       /\ status = StatusEnded

\* C14 witness: a full grid on which two players are tied at the maximum and
\* the third owns fewer cells; both leaders are winners
FullGridResultWitness ==
  /\ Evaluated
  /\ EmptyOf(last.placed) = 0
  /\ NoMajorityIn(last.placed, players)
  /\ RankedCount(last.placed, players, 1) = RankedCount(last.placed, players, 2)
  /\ RankedCount(last.placed, players, 3) < RankedCount(last.placed, players, 2)
  /\ RankedCount(last.placed, players, 1) >= 1
  /\ Len(winCondition.winners) = 2

\* the evaluated grid has no Empty cell and no cell with an owner
NobodyOwnsFullGrid ==
  /\ Evaluated
  /\ EmptyOf(last.placed) = 0
  /\ \A id \in SeqToSet(players) : OwnedBy(last.placed, id) = {}

\* C15 as stated: on a grid without Empty cells and without owners the
\* evaluator reports no winner and updateGame leaves the game Running.
ZeroOwnerStalemateAsStated ==
  NobodyOwnsFullGrid =>
    /\ ~checkConquerVictory(last.placed, players).hasWinner
    /\ checkConquerVictory(last.placed, players).winners = <<>>
    /\ status = StatusRunning

\* C15: on a grid without Empty cells and without owners the evaluator
\* returns a stalemate result, hasWinner true with no winners, and updateGame
\* ends the game with that result.
ZeroOwnerStalemate ==
  NobodyOwnsFullGrid =>
    /\ checkConquerVictory(last.placed, players)
         = [hasWinner |-> TRUE, winners |-> <<>>, type |-> VictoryStalemate]
    /\ winCondition = checkConquerVictory(last.placed, players)
    /\ status = StatusEnded

\* C15 witness: updateGame evaluated such a grid
ZeroOwnerStalemateWitness ==
  /\ NobodyOwnsFullGrid
  /\ winCondition.type = VictoryStalemate

\* C16: after every accepted move, if the grid the placement and its region
\* captures result in satisfies a victory condition, the game is Ended with
\* winCondition set and the turn is still the mover's.
VictoryOnPostCaptureGrid ==
  (MoveAccepted /\ checkConquerVictory(grid, players).hasWinner) =>
    /\ status = StatusEnded
    /\ winCondition.hasWinner
    /\ currentTurn.playerId = last.player

----------------------------------------------------------------------------
(* Properties of the turn state machine *)

\* this step installed a new Turn
TurnAdvanced == advances' = advances + 1

\* position of a player in join order, counted from 0
JoinIndex(id) == (CHOOSE i \in 1 .. Len(players) : players[i] = id) - 1

\* C17: a turn advance leaves turnNumber unchanged unless the new holder is
\* players[0], where it grows by exactly 1; after k advances of an N-player
\* game the turn number is 1 + floor(k/N).
TurnNumbering ==
  [][TurnAdvanced =>
       /\ currentTurn'.turnNumber
            = IF currentTurn'.playerId = players[1]
              THEN currentTurn.turnNumber + 1 ELSE currentTurn.turnNumber
       /\ currentTurn'.turnNumber = 1 + (advances' \div Len(players))]_vars

\* C17 witness: the third advance of the three-player game opened turn 2
TurnNumberingWitness ==
  /\ Len(players) = 3
  /\ advances = 3
  /\ currentTurn.turnNumber = 2
  /\ currentTurn.playerId = players[1]

\* C18: a turn advance hands the turn to the player at index (i+1) mod N, in
\* a fresh Turn with no moves and the full time budget of the options; the
\* holder after k advances is the player at index k mod N, so N consecutive
\* advances give the turn to each player once.
RoundRobin ==
  [][TurnAdvanced =>
       /\ JoinIndex(currentTurn'.playerId)
            = (JoinIndex(currentTurn.playerId) + 1) % Len(players)
       /\ JoinIndex(currentTurn'.playerId) = advances' % Len(players)
       /\ currentTurn'.moves = <<>>
       /\ currentTurn'.timeLimit = options.turnTimeLimit
       /\ currentTurn'.timeRemaining = options.turnTimeLimit]_vars

\* C18 witness: an accepted placement of the last player in join order
\* handed the turn back to the first
RoundRobinWitness ==
  /\ Len(players) = 3
  /\ MoveAccepted
  /\ last.player = players[3]
  /\ status = StatusRunning
  /\ currentTurn.playerId = players[1]
  /\ currentTurn.moves = <<>>

\* C19: once the status is Ended no step installs a new Turn: the holder and
\* the number of currentTurn stay as they were when the game ended.
TerminalCondition ==
  [][status = StatusEnded =>
       /\ currentTurn'.playerId = currentTurn.playerId
       /\ currentTurn'.turnNumber = currentTurn.turnNumber
       /\ advances' = advances]_vars

\* C20: passTurn called by the holder of the turn leaves the grid, the status
\* and winCondition unchanged and installs the Turn a move would hand on:
\* next player in join order, number increased only on the wrap, no moves,
\* full time budget; called by anybody else it changes nothing.
PassTurnFrame ==
  [][last'.op = "pass" =>
       IF currentTurn.playerId \in localIds
       THEN /\ grid' = grid
            /\ status' = status
            /\ winCondition' = winCondition
            /\ currentTurn'
                 = [turnNumber |-> IF JoinIndex(currentTurn.playerId) + 1 = Len(players)
                                   THEN currentTurn.turnNumber + 1
                                   ELSE currentTurn.turnNumber,
                    playerId |-> players[((JoinIndex(currentTurn.playerId) + 1)
                                            % Len(players)) + 1],
                    moves |-> <<>>,
                    timeLimit |-> options.turnTimeLimit,
                    timeRemaining |-> options.turnTimeLimit]
            /\ \A pos \in Positions(grid) :
                 (makeMove(pos).valid /\ makeMove(pos).status = StatusRunning)
                   => currentTurn' = makeMove(pos).currentTurn
       ELSE UNCHANGED <<grid, options, players, localIds, currentTurn, status,
                        winCondition, validMoves, isInitialized, resizes, advances>>]_vars

\* C20 witness: a pass of the last player in join order opened the next round
PassTurnFrameWitness ==
  /\ last.op = "pass"
  /\ last.valid
  /\ status = StatusRunning
  /\ currentTurn.playerId = players[1]
  /\ currentTurn.turnNumber = 2

----------------------------------------------------------------------------
(* Properties of the score projection *)

Projected == last.op = "score"

\* the percentage rounded half up, computed in integers
RoundedPercentage(tiles, playable) ==
  IF playable = 0 THEN 0 ELSE (200 * tiles + playable) \div (2 * playable)

RECURSIVE SumTiles(_)
SumTiles(scores) ==
  IF scores = <<>> THEN 0 ELSE Head(scores).tilesOwned + SumTiles(Tail(scores))

\* C21: for every player the projection returns tilesOwned = the Occupied
\* cells the player owns and percentage = tilesOwned * 100 / playableCells
\* rounded half up (0 without playable cells), playableCells being the cells
\* that are not a Rock; the tilesOwned of all players sum to at most that.
ScoreProjection ==
  Projected =>
    LET playable == Cardinality({p \in Positions(grid) :
                                   grid.cells[p].type # CellTypeRock})
        owned(id) == Cardinality({p \in OwnedBy(grid, id) :
                                    grid.cells[p].type = CellTypeOccupied})
    IN /\ \A i \in 1 .. Len(players) :
            /\ last.scores[i].playerId = players[i]
            /\ last.scores[i].tilesOwned = owned(players[i])
            /\ last.scores[i].percentage = RoundedPercentage(owned(players[i]), playable)
       /\ SumTiles(last.scores) <= playable

----------------------------------------------------------------------------
(* Properties of the grid *)

\* C23: in every state each cell has an owner exactly when its type is
\* Occupied; no Rock and no Empty cell carries an owner.
CellOwnership ==
  \A p \in Positions(grid) :
    grid.cells[p].owner # NoOwner <=> grid.cells[p].type = CellTypeOccupied

RocksOf(g) == {p \in Positions(g) : g.cells[p].type = CellTypeRock}

\* C25: once the scene of the game has been created, and with it the rocks
\* generated, no step changes the set of Rock cells.
RocksGeneratedOnce ==
  [][resizes >= 1 => RocksOf(grid') = RocksOf(grid)]_vars

----------------------------------------------------------------------------
(* Properties of the status of a game *)

StatusRank(st) ==
  CASE st = StatusPending -> 1
    [] st = StatusRunning -> 3
    [] st = StatusEnded   -> 6

\* C24: status only moves forward through Pending, Starting, Running, Paused,
\* Ending, Ended, except for a step back to Pending; an Ended game is never
\* Running in the next step, and only startGame makes a game Running
StatusMonotonic ==
  [][/\ status' = StatusPending \/ StatusRank(status') >= StatusRank(status)
     /\ (status' = StatusRunning /\ status # StatusRunning)
          => (last'.op = "start" /\ last'.valid)]_vars

\* C29: a call of startGame changes nothing unless the caller is the host and
\* the game has at least two players; otherwise the game is Running on the
\* same grid, with a first Turn (turnNumber 1, no moves) for players[0]
StartGameContract ==
  [][last'.op = "start" =>
       IF last'.player = createdBy /\ Len(players) >= 2
       THEN /\ last'.valid
            /\ status' = StatusRunning
            /\ grid' = grid
            /\ players' = players
            /\ currentTurn'.turnNumber = 1
            /\ currentTurn'.moves = <<>>
            /\ currentTurn'.playerId = players[1]
       ELSE /\ ~last'.valid
            /\ UNCHANGED <<grid, options, players, localIds, currentTurn, status,
                           winCondition, validMoves, isInitialized, resizes,
                           advances>>]_vars

\* a game started by its host with cells already owned on its grid
StartGameContractWitness ==
  /\ last.op = "start" /\ last.valid
  /\ status = StatusRunning
  /\ currentTurn.turnNumber = 1 /\ currentTurn.playerId = players[1]
  /\ \E p \in Positions(grid) : CellAt(grid, p).owner # NoOwner

----------------------------------------------------------------------------
(* Properties of the rock generator *)

\* C26: after generateRocks on a fresh grid of w x h cells with density d,
\* exactly floor(w * h * d / 100) cells are Rock and every other cell is Empty
RockCountOnFreshGrid ==
  last.op = "create" =>
    /\ Cardinality(RocksOf(grid)) =
         (grid.width * grid.height * options.rocksPercentage) \div 100
    /\ \A p \in Positions(grid) \ RocksOf(grid) :
         CellAt(grid, p) = [type |-> CellTypeEmpty, owner |-> NoOwner]

----------------------------------------------------------------------------
(* Properties of the options *)

\* the ranges of the configuration surface
InConfigurationRanges(o) ==
  /\ o.gridSize.width \in MinGridSize .. MaxGridSize
  /\ o.gridSize.height \in MinGridSize .. MaxGridSize
  /\ o.rocksPercentage \in 0 .. 90
  /\ o.maxNeutralEdges \in 0 .. MaxNeutralEdgesLimit

\* C27: an option set accepted by updateGameOptions has grid width and height
\* in 4..64, rock density in 0..90 and maxNeutralEdges in 0..20; an update
\* outside these ranges is refused and leaves options and grid unchanged
ConfigurationRanges ==
  [][last'.op = "options" =>
       /\ last'.valid => InConfigurationRanges(last'.submitted)
       /\ ~InConfigurationRanges(last'.submitted)
            => ~last'.valid /\ UNCHANGED <<options, grid>>]_vars

----------------------------------------------------------------------------
(* Properties of regions on the edge of the grid *)

\* the regions the last call captured, as sets of cells
CapturedRegionSets ==
  {SeqToSet(last.capturedRegions[i]) : i \in 1 .. Len(last.capturedRegions)}

----------------------------------------------------------------------------
(* Properties of updateGame *)

\* C30: an update that supplies neither status nor winCondition leaves an
\* Ended game Ended with its winCondition, whatever grid it merges; on a
\* Running game it ends the game exactly when the evaluator finds a winner on
\* the merged grid, and then sets status and winCondition in the same step
EndedGameKeepsResult ==
  [][last'.op = "merge" =>
       LET victoryResult == checkConquerVictory(grid', players) IN
       /\ status = StatusEnded
            => status' = StatusEnded /\ winCondition' = winCondition
       /\ (status = StatusRunning /\ victoryResult.hasWinner)
            => status' = StatusEnded /\ winCondition' = victoryResult
       /\ (status = StatusRunning /\ ~victoryResult.hasWinner)
            => status' = StatusRunning /\ winCondition' = winCondition
       /\ status' = StatusEnded <=> winCondition'.hasWinner]_vars

\* an Ended game took a grid on which the evaluator would name other winners
EndedGameKeepsResultWitness ==
  /\ last.op = "merge"
  /\ status = StatusEnded
  /\ checkConquerVictory(grid, players).hasWinner
  /\ checkConquerVictory(grid, players).winners # winCondition.winners

====
